---- MODULE Spec2Model ----
(***************************************************************************)
(* Model of lib/remote.js: the remote end of a parent/child joint.  The    *)
(* joint object holds no mutable state; the state is the content of the    *)
(* two collections, the requests a hook invocation has issued, and the     *)
(* position of the invocation in its promise chain.                        *)
(*                                                                         *)
(* A record is a function from field names to values.  Scalar fields hold  *)
(* strings and "" stands for a falsy value (undefined, null or the empty   *)
(* string); the snapshot field holds a record and the related-list field   *)
(* a sequence of records, and both are absent when they are unset.         *)
(***************************************************************************)
EXTENDS Naturals, Sequences, FiniteSets, TLC

VARIABLES
  config,     \* the options object the caller holds and passes to joint
  built,      \* how many times joint(config) has been called
  joints,     \* what the calls that returned have built, in order
  thrown,     \* the error the latest call threw, "none" when it returned
  calls,      \* the collection methods the latest call invoked, in order
  cfg,        \* the closure of joint(options): the destructured options
  parents,    \* content of parentCollection: a set of records
  children,   \* content of childCollection: a set of records
  hook,       \* the hook of the latest invocation ("none" before the first)
  arg,        \* the record that invocation was given
  pc,         \* where the invocation is suspended: "idle" when none is running
  work,       \* the record (cleaned / prepared) or the found children it carries
  status,     \* what the invocation gave its caller
  out,        \* the record an enhanced transform resolved with
  err,        \* the reason of a rejection
  log,        \* the collection requests the invocation issued, in order
  detached,   \* update requests whose promise nobody holds, not yet applied
  opFailed,   \* a collection operation issued by the latest invocation failed
  chained,    \* the invocation is a prepare of the previous cleanse's output
  base        \* the collections at the start of a follow-up call, else unset

caller == <<config, built, joints, thrown, calls>>

vars == <<caller, cfg, parents, children, hook, arg, pc, work, status, out, err, log,
          detached, opFailed, chained, base>>

(***************************************************************************)
(* Bounds of the model.                                                    *)
(***************************************************************************)
MaxDetached == 1
MaxBuilds == 2

(***************************************************************************)
(* Field names: what the options and the collections' key accessors give.  *)
(***************************************************************************)
ParentKeyField == "extId"
ParentLocalKey == "id"
ChildLocalKey == "id"
LookupField == "fk"
ParentFieldName == "parent"
RelatedListName == "list"
UserRelatedListFields == <<"title">>

Range(s) == {s[i] : i \in 1..Len(s)}

\* A falsy value of a scalar field.
Unset == ""

\* record[f] as JavaScript reads it (objectPath.get on a plain field name).
Get(rec, f) == IF f \in DOMAIN rec THEN rec[f] ELSE Unset

Truthy(v) == v # Unset

\* record[f] = v (objectPath.set on a plain field name).
Put(rec, f, v) == [g \in (DOMAIN rec) \cup {f} |-> IF g = f THEN v ELSE rec[g]]

\* extractNamedFields(record, fields): only the named fields the record has.
extractNamedFields(rec, fields) ==
  [f \in Range(fields) \cap DOMAIN rec |-> rec[f]]

(***************************************************************************)
(* The Collection collaborator (its code is not part of lib/remote.js):    *)
(* get, find, update(matchCriteria, fieldsToSet) and the two embedded-list *)
(* primitives, as the interface description states them.                   *)
(***************************************************************************)
StructuredFields == {ParentFieldName, RelatedListName}

\* Whether a record satisfies every field of the criteria.
Matches(rec, q) ==
  \A f \in DOMAIN q :
    IF f \in StructuredFields
      THEN f \in DOMAIN rec /\ rec[f] = q[f]
      ELSE Get(rec, f) = q[f]

\* fieldsToSet written over a record.
Merge(rec, set) ==
  [g \in (DOMAIN rec) \cup (DOMAIN set) |-> IF g \in DOMAIN set THEN set[g] ELSE rec[g]]

\* update(matchCriteria, fieldsToSet): partial update of all matching records.
Update(coll, match, set) ==
  {IF Matches(r, match) THEN Merge(r, set) ELSE r : r \in coll}

\* find(queryByField) and get(queryByKey): the records that match.
Find(coll, q) == {r \in coll : Matches(r, q)}

\* get(key): point lookup by the collection's local key.
GetByLocalKey(coll, k) ==
  {r \in coll : Truthy(k) /\ Get(r, ParentLocalKey) = k}

\* The orders in which a multi-record lookup may return its records.
Orders(S) == {s \in [1..Cardinality(S) -> S] : Range(s) = S}

ListOf(rec, listField) == IF listField \in DOMAIN rec THEN rec[listField] ELSE <<>>

\* Insert-or-replace of an entry, by entry key, in one embedded list.
Upsert(list, entry, keyField) ==
  IF \E i \in 1..Len(list) : Get(list[i], keyField) = Get(entry, keyField)
    THEN [i \in 1..Len(list) |->
            IF Get(list[i], keyField) = Get(entry, keyField) THEN entry ELSE list[i]]
    ELSE Append(list, entry)

\* addOrUpdateChildInCollection(matchCriteria, listFieldName, entry, entryKeyField)
AddOrUpdateChildInCollection(coll, match, listField, entry, keyField) ==
  {IF Matches(r, match)
     THEN Put(r, listField, Upsert(ListOf(r, listField), entry, keyField))
     ELSE r : r \in coll}

\* removeChildFromCollection(matchCriteria, listFieldName, entryKeyCriteria)
RemoveChildFromCollection(coll, match, listField, crit) ==
  {IF Matches(r, match) /\ listField \in DOMAIN r
     THEN LET Keep(e) == ~Matches(e, crit)
          IN  Put(r, listField, SelectSeq(r[listField], Keep))
     ELSE r : r \in coll}

(***************************************************************************)
(* Construction: joint(options).                                           *)
(***************************************************************************)
Options ==
  [childEntity : {"Contact"},
   parentEntity : {"Account"},
   lookupField : {LookupField},
   parentFields : {<<>>, <<"name">>, <<ParentKeyField>>},
   relatedListName : {Unset, RelatedListName},
   relatedListFields : {UserRelatedListFields}]

\* A set of options objects, each with or without the field k.
WithOptional(S, k, values) == S \cup {o @@ (k :> v) : o \in S, v \in values}

\* The options objects a caller may hold: any of the fields but relatedListName
\* may be missing (a missing relatedListName is the falsy one).
Configs ==
  LET s0 == {("relatedListName" :> n) : n \in {Unset, RelatedListName}}
      s1 == WithOptional(s0, "childEntity", {"Contact"})
      s2 == WithOptional(s1, "parentEntity", {"Account"})
      s3 == WithOptional(s2, "lookupField", {LookupField})
      s4 == WithOptional(s3, "parentFields",
                         {<<>>, <<"name">>, <<ParentLocalKey>>, <<ParentKeyField>>})
  IN  WithOptional(s4, "relatedListFields", {UserRelatedListFields})

\* The options joint requires to be strings; a field holds a string or is missing.
StringOptions == <<"childEntity", "parentEntity", "lookupField">>

\* The first of them that typeof finds not to be a string, "" when there is none.
InvalidOption(options) ==
  LET bad == {i \in 1..Len(StringOptions) : StringOptions[i] \notin DOMAIN options}
  IN  IF bad = {} THEN Unset
      ELSE StringOptions[CHOOSE i \in bad : \A j \in bad : i <= j]

\* checkOptions: relatedListFields is required with relatedListName.
checkOptions(options) ==
  Truthy(Get(options, "relatedListName")) =>
    /\ "relatedListFields" \in DOMAIN options
    /\ Len(options.relatedListFields) > 0

\* Object.assign({parentFields: []}, options)
Destructured(options) == options @@ ("parentFields" :> <<>>)

\* The collection accessors a successful construction calls.
AccessorCalls(options) ==
  <<"parentCollection.getKeyField", "parentCollection.getLocalKeyField">>
    \o (IF Truthy(Get(options, "relatedListName"))
          THEN <<"childCollection.getLocalKeyField">> ELSE <<>>)

\* The caller's object after joint returned: push has extended the lists the
\* caller provided.
Pushed(options) ==
  [k \in DOMAIN options |->
     IF k = "parentFields" THEN Append(options[k], ParentLocalKey)
     ELSE IF k = "relatedListFields" /\ Truthy(Get(options, "relatedListName"))
       THEN Append(options[k], ChildLocalKey)
     ELSE options[k]]

\* A construction that reads the collections' keys and extends the lists
\* before it validates the options.
jointCallValidatingLast(options) ==
  IF Truthy(InvalidOption(options)) \/ ~checkOptions(options)
    THEN [thrown |-> IF Truthy(InvalidOption(options))
                       THEN "Invalid option " \o InvalidOption(options)
                       ELSE "checkOptions",
          returned |-> FALSE,
          calls |-> AccessorCalls(options),
          options |-> options]
    ELSE [thrown |-> "none", returned |-> TRUE,
          calls |-> AccessorCalls(options), options |-> Pushed(options)]

\* What a call of joint(options) does to its caller: what it throws, whether
\* it returns a joint, the collection methods it calls and the state it
\* leaves the options object in.
jointCall(options) ==
  IF Truthy(InvalidOption(options))
    THEN [thrown |-> "Invalid option " \o InvalidOption(options), returned |-> FALSE,
          calls |-> <<>>, options |-> options]
  ELSE IF ~checkOptions(options)
    THEN [thrown |-> "checkOptions", returned |-> FALSE,
          calls |-> <<>>, options |-> options]
  ELSE [thrown |-> "none", returned |-> TRUE,
        calls |-> AccessorCalls(options), options |-> Pushed(options)]

\* joint(options) without the push of the parent collection's local key.
jointNoLocalKey(options) ==
  [declared |-> options.parentFields,
   parentFields |-> options.parentFields,
   relatedListName |-> options.relatedListName,
   relatedListFields |-> IF Truthy(options.relatedListName)
                           THEN Append(UserRelatedListFields, ChildLocalKey)
                           ELSE UserRelatedListFields,
   onParentUpdated |-> Len(options.parentFields) > 0,
   childHooks |-> Truthy(options.relatedListName)]

\* The destructured options after the two push calls, and the optional hooks.
joint(options) ==
  LET declared == Destructured(options).parentFields
      parentFields == Append(declared, ParentLocalKey)
      related == Truthy(options.relatedListName)
      relatedListFields == IF "relatedListFields" \in DOMAIN options
                             THEN options.relatedListFields ELSE <<>>
  IN  [declared |-> declared,
       parentFields |-> parentFields,
       relatedListName |-> options.relatedListName,
       relatedListFields |-> IF related
                               THEN Append(relatedListFields, ChildLocalKey)
                               ELSE relatedListFields,
       onParentUpdated |-> Len(parentFields) > 1,
       childHooks |-> related]

Related == Truthy(cfg.relatedListName)

(***************************************************************************)
(* Records the hooks are given and the collections start with.             *)
(***************************************************************************)
EmptyRec == [f \in {} |-> Unset]

ParentNoExt == [id |-> "p1", extId |-> Unset, name |-> "A"]
ParentOne == [id |-> "p1", extId |-> "E1", name |-> "A"]
ParentTwo == [id |-> "p2", extId |-> "E2", name |-> "B"]
ParentArgs == {ParentNoExt, ParentOne, ParentTwo}
ParentInits == {{ParentNoExt}, {ParentTwo}, {ParentOne, ParentTwo}}

ExtKeys == {"E1", "E2"}
Titles == {"t", "u"}

\* Children as the child hooks receive them: child c1 under either parent,
\* retitled, or without a parent; child c2 under the first parent.
ChildArgs ==
  {[id |-> "c1", fk |-> "E1", title |-> "t"],
   [id |-> "c1", fk |-> "E1", title |-> "u"],
   [id |-> "c1", fk |-> "E2", title |-> "t"],
   [id |-> "c1", fk |-> Unset, title |-> "t"],
   [id |-> "c2", fk |-> "E1", title |-> "t"]}

\* The snapshot of a parent under the options' parentFields.
SnapshotOf(c, p) == extractNamedFields(p, c.parentFields)

\* Records given to the enhanced cleanse: with or without a foreign key, and
\* with or without a snapshot left by an earlier cleanse.
CleanseArgs(c) ==
  LET plain == [id : {"c1"}, fk : {Unset} \cup ExtKeys, title : {"t"}]
  IN  plain \cup {Put(r, ParentFieldName, SnapshotOf(c, ParentTwo)) : r \in plain}

\* Records given to the enhanced prepare: with or without a foreign key
\* already set; without a snapshot, or with the snapshot of parent p1 taken
\* after or before it was given its external key (p1 may also be missing
\* from the parent collection).
PrepareArgs(c) ==
  LET plain == [id : {"c1"}, fk : {Unset, "E2"}, title : {"t"}]
  IN  plain
        \cup {Put(r, ParentFieldName, SnapshotOf(c, ParentOne)) : r \in plain}
        \cup {Put(r, ParentFieldName, SnapshotOf(c, ParentNoExt)) :
                r \in {q \in plain : Truthy(q.fk)}}

\* The child collection the joint is built over: a child created locally
\* under parent p1 and a child that arrived with a foreign key.
ChildInits(c) ==
  {{[id |-> "c1", fk |-> Unset, title |-> "t", parent |-> SnapshotOf(c, ParentOne)],
    [id |-> "c2", fk |-> "E1", title |-> "t"]}}

Actions == {"update"}

\* The transforms a caller wraps (any caller-supplied function; these two
\* rewrite one field so that their effect shows in the output).
WrappedCleanse(rec) == Put(rec, "title", "clean")
WrappedPrepare(rec, action) == Put(rec, "title", action)

NoBase == [set |-> FALSE]

TypeOK ==
  /\ pc \in {"idle", "cleanseGet", "prepareGet", "find", "parentUpdate", "add", "remove"}
  /\ status \in {"none", "pending", "resolved", "rejected", "returned"}
  /\ err \in {"none", "collection", "notFound", "noExternalId"}
  /\ hook \in {"none", "onParentInserted", "onParentUpdated", "onChildInserted",
               "onChildUpdated", "onChildRemoved", "cleanse", "prepare"}
  /\ opFailed \in BOOLEAN
  /\ chained \in BOOLEAN
  /\ Cardinality(detached) <= MaxDetached
  /\ (pc # "idle") = (status = "pending")

\* The state once the caller has built a joint from its options.
Init ==
  /\ \E o \in Options :
       /\ cfg = joint(o)
       /\ config = jointCall(o).options
       /\ thrown = jointCall(o).thrown
       /\ calls = jointCall(o).calls
  /\ built = 1
  /\ joints = <<cfg>>
  /\ parents \in ParentInits
  /\ children \in ChildInits(cfg)
  /\ hook = "none"
  /\ arg = EmptyRec
  /\ pc = "idle"
  /\ work = EmptyRec
  /\ status = "none"
  /\ out = EmptyRec
  /\ err = "none"
  /\ log = <<>>
  /\ detached = {}
  /\ opFailed = FALSE
  /\ chained = FALSE
  /\ base = NoBase

(***************************************************************************)
(* Requests and the bookkeeping every invocation starts with.              *)
(***************************************************************************)
\* An update whose promise is dropped: it is applied (or fails) on its own.
Detach(req) == [match |-> req.a1, set |-> req.a2, cur |-> TRUE]

\* Requests of earlier invocations that are still outstanding.
Older(ds) == {[d EXCEPT !.cur = FALSE] : d \in ds}

\* What a point lookup hands to its continuation: a record, or nothing.
GetResults(S) == IF S = {} THEN {EmptyRec} ELSE S

Begin(h, a) ==
  /\ pc = "idle"
  /\ hook' = h
  /\ arg' = a
  /\ opFailed' = FALSE
  /\ err' = "none"

Settle(st, o) ==
  /\ pc' = "idle"
  /\ status' = st
  /\ out' = o

Suspend(at, w) ==
  /\ pc' = at
  /\ status' = "pending"
  /\ work' = w
  /\ out' = EmptyRec

\* A collection operation the invocation awaits fails: the chain rejects.
AwaitedFails ==
  /\ pc # "idle"
  /\ Settle("rejected", EmptyRec)
  /\ err' = "collection"
  /\ opFailed' = TRUE
  /\ UNCHANGED <<caller, cfg, parents, children, hook, arg, work, log, detached, chained, base>>

(***************************************************************************)
(* onParentInserted / onParentUpdated.                                     *)
(***************************************************************************)
\* childCollection.update({[parentFieldName]: snapshot}, {[lookupField]: key})
PropagationRequest(parent) ==
  [op |-> "update", coll |-> "child",
   a1 |-> (ParentFieldName :> extractNamedFields(parent, cfg.parentFields)),
   a2 |-> (LookupField :> Get(parent, ParentKeyField))]

\* childCollection.find({[lookupField]: parent[parentKeyField]})
FindRequest(parent) ==
  [op |-> "find", coll |-> "child",
   a1 |-> (LookupField :> Get(parent, ParentKeyField)), a2 |-> EmptyRec]

\* parentCollection.update({[relatedListName]: children}, {[parentKeyField]: key})
ListUpdateRequest(parent, recs) ==
  [op |-> "update", coll |-> "parent",
   a1 |-> (RelatedListName :>
             [i \in 1..Len(recs) |-> extractNamedFields(recs[i], cfg.relatedListFields)]),
   a2 |-> (ParentKeyField :> Get(parent, ParentKeyField))]

\* The redefined onParentInserted first calls j.onParentUpdated, if there is one.
DelegatedRequests(parent) ==
  IF cfg.onParentUpdated THEN <<PropagationRequest(parent)>> ELSE <<>>

\* The requests onParentInserted issues before it returns.
InsertRequests(parent) ==
  IF Related
    THEN DelegatedRequests(parent) \o <<FindRequest(parent)>>
    ELSE <<PropagationRequest(parent)>>

\* The un-awaited updates among them.
Dropped(reqs) == {Detach(reqs[i]) : i \in {j \in 1..Len(reqs) : reqs[j].op = "update"}}

\* Whether the call follows up on the invocation that has just completed for
\* the same record, with nothing outstanding: a re-run of the same hook, or
\* the removal of the child just upserted.
FollowsUp(h, a) ==
  /\ arg = a
  /\ \/ hook = h /\ h \in {"onParentInserted", "onChildInserted", "onChildUpdated"}
     \/ h = "onChildRemoved" /\ hook \in {"onChildInserted", "onChildUpdated"}
  /\ status \in {"resolved", "returned"}
  /\ ~opFailed
  /\ detached = {}

\* The collections as the follow-up call found them.
BaseFor(h, a) ==
  IF FollowsUp(h, a)
    THEN [set |-> TRUE, parents |-> parents, children |-> children]
    ELSE NoBase

CallOnParentInserted(parent) ==
  /\ Begin("onParentInserted", parent)
  /\ log' = InsertRequests(parent)
  /\ detached' = Older(detached) \cup Dropped(InsertRequests(parent))
  /\ Cardinality(detached') <= MaxDetached
  /\ IF Related
       THEN Suspend("find", EmptyRec)
       ELSE Settle("returned", EmptyRec) /\ work' = EmptyRec
  /\ base' = BaseFor("onParentInserted", parent)
  /\ chained' = FALSE
  /\ UNCHANGED <<caller, cfg, parents, children>>

CallOnParentUpdated(parent) ==
  /\ cfg.onParentUpdated
  /\ Begin("onParentUpdated", parent)
  /\ log' = <<PropagationRequest(parent)>>
  /\ detached' = Older(detached) \cup {Detach(PropagationRequest(parent))}
  /\ Cardinality(detached') <= MaxDetached
  /\ Settle("returned", EmptyRec)
  /\ work' = EmptyRec
  /\ base' = NoBase
  /\ chained' = FALSE
  /\ UNCHANGED <<caller, cfg, parents, children>>

\* The find of the redefined onParentInserted resolves.
FindDone ==
  /\ pc = "find"
  /\ \E recs \in Orders(Find(children, log[Len(log)].a1)) :
       IF Len(recs) > 0
         THEN /\ log' = Append(log, ListUpdateRequest(arg, recs))
              /\ Suspend("parentUpdate", EmptyRec)
         ELSE /\ Settle("resolved", EmptyRec)
              /\ UNCHANGED <<log, work>>
  /\ UNCHANGED <<caller, cfg, parents, children, hook, arg, err, detached, opFailed, chained, base>>

\* The parent update of the redefined onParentInserted resolves.
ParentUpdateDone ==
  /\ pc = "parentUpdate"
  /\ parents' = Update(parents, log[Len(log)].a1, log[Len(log)].a2)
  /\ Settle("resolved", EmptyRec)
  /\ UNCHANGED <<caller, cfg, children, hook, arg, work, err, log, detached, opFailed, chained, base>>

\* The collection carries out an update nobody awaits.
DetachedApplied(d) ==
  /\ d \in detached
  /\ children' = Update(children, d.match, d.set)
  /\ detached' = detached \ {d}
  /\ UNCHANGED <<caller, cfg, parents, hook, arg, pc, work, status, out, err, log, opFailed,
                 chained, base>>

\* ... or the update fails: its rejection reaches no one.
DetachedFails(d) ==
  /\ d \in detached
  /\ detached' = detached \ {d}
  /\ opFailed' = (opFailed \/ d.cur)
  /\ UNCHANGED <<caller, cfg, parents, children, hook, arg, pc, work, status, out, err, log,
                 chained, base>>

(***************************************************************************)
(* onChildInserted / onChildUpdated / onChildRemoved.                      *)
(***************************************************************************)
\* A key that does not identify the child: one of the summary's other fields.
childKeyFieldTitle == "title"

\* The key the embedded list's entries are identified by.
childKeyField == ChildLocalKey

\* parentCollection.addOrUpdateChildInCollection(...)
AddRequest(child) ==
  [op |-> "addOrUpdateChild", coll |-> "parent",
   a1 |-> (ParentKeyField :> Get(child, LookupField)),
   list |-> cfg.relatedListName,
   entry |-> extractNamedFields(child, cfg.relatedListFields),
   key |-> childKeyField]

\* A removal whose entry criteria hold the whole summary's title, not the key.
RemoveRequestByTitle(child) ==
  [op |-> "removeChild", coll |-> "parent",
   a1 |-> (ParentKeyField :> Get(child, LookupField)),
   list |-> cfg.relatedListName,
   a2 |-> [title |-> Get(child, "title")]]

\* A removal that names no parent: it reaches the list of every parent.
RemoveRequestAnyParent(child) ==
  [op |-> "removeChild", coll |-> "parent",
   a1 |-> EmptyRec,
   list |-> cfg.relatedListName,
   a2 |-> (ChildLocalKey :> Get(child, ChildLocalKey))]

\* parentCollection.removeChildFromCollection(...)
RemoveRequest(child) ==
  [op |-> "removeChild", coll |-> "parent",
   a1 |-> (ParentKeyField :> Get(child, LookupField)),
   list |-> cfg.relatedListName,
   a2 |-> (childKeyField :> Get(child, childKeyField))]

\* Child hooks without the test of the child's foreign key.
ChildRequestsUnguarded(h, child) ==
  IF h = "onChildRemoved" THEN <<RemoveRequest(child)>> ELSE <<AddRequest(child)>>

\* The requests a child hook issues: none for a child without a foreign key.
ChildRequests(h, child) ==
  IF Truthy(Get(child, LookupField))
    THEN IF h = "onChildRemoved" THEN <<RemoveRequest(child)>> ELSE <<AddRequest(child)>>
    ELSE <<>>

CallOnChild(h, child) ==
  /\ cfg.childHooks
  /\ Begin(h, child)
  /\ log' = ChildRequests(h, child)
  /\ IF log' # <<>>
       THEN Suspend(IF h = "onChildRemoved" THEN "remove" ELSE "add", EmptyRec)
       ELSE Settle("returned", EmptyRec) /\ work' = EmptyRec
  /\ detached' = Older(detached)
  /\ base' = BaseFor(h, child)
  /\ chained' = FALSE
  /\ UNCHANGED <<caller, cfg, parents, children>>

AddDone ==
  /\ pc = "add"
  /\ LET req == log[Len(log)]
     IN  parents' = AddOrUpdateChildInCollection(parents, req.a1, req.list, req.entry, req.key)
  /\ Settle("resolved", EmptyRec)
  /\ UNCHANGED <<caller, cfg, children, hook, arg, work, err, log, detached, opFailed, chained, base>>

RemoveDone ==
  /\ pc = "remove"
  /\ LET req == log[Len(log)]
     IN  parents' = RemoveChildFromCollection(parents, req.a1, req.list, req.a2)
  /\ Settle("resolved", EmptyRec)
  /\ UNCHANGED <<caller, cfg, children, hook, arg, work, err, log, detached, opFailed, chained, base>>

(***************************************************************************)
(* enhanceCleanse.                                                         *)
(***************************************************************************)
\* parentCollection.get({[parentKeyField]: lookupId})
CleanseGetRequest(cleaned) ==
  [op |-> "get", coll |-> "parent",
   a1 |-> (ParentKeyField :> Get(cleaned, LookupField)), a2 |-> EmptyRec]

\* The requests the enhanced cleanse issues once the wrapped transform is done.
CleanseRequests(cleaned) ==
  IF ~Truthy(Get(cleaned, LookupField)) THEN <<>> ELSE <<CleanseGetRequest(cleaned)>>

\* A continuation that attaches a snapshot whether or not a parent was found.
CleanseAfterGetAlwaysAttach(cleaned, parent) ==
  Put(cleaned, ParentFieldName, extractNamedFields(parent, cfg.parentFields))

\* The continuation of the lookup: attach the snapshot, or warn and go on.
CleanseAfterGet(cleaned, parent) ==
  IF parent # EmptyRec
    THEN Put(cleaned, ParentFieldName, extractNamedFields(parent, cfg.parentFields))
    ELSE cleaned

CallCleanse(record, wrapped) ==
  /\ Begin("cleanse", record)
  /\ LET cleaned == IF wrapped THEN WrappedCleanse(record) ELSE record
     IN  /\ log' = CleanseRequests(cleaned)
         /\ work' = cleaned
         /\ IF log' = <<>>
              THEN Settle("resolved", cleaned)
              ELSE /\ pc' = "cleanseGet"
                   /\ status' = "pending"
                   /\ out' = EmptyRec
  /\ detached' = Older(detached)
  /\ base' = NoBase
  /\ chained' = FALSE
  /\ UNCHANGED <<caller, cfg, parents, children>>

CleanseGetDone ==
  /\ pc = "cleanseGet"
  /\ \E parent \in GetResults(Find(parents, log[1].a1)) :
       Settle("resolved", CleanseAfterGet(work, parent))
  /\ UNCHANGED <<caller, cfg, parents, children, hook, arg, work, err, log, detached, opFailed,
                 chained, base>>

(***************************************************************************)
(* enhancePrepare.                                                         *)
(***************************************************************************)
HasSnapshot(rec) == ParentFieldName \in DOMAIN rec

\* A lookup that passes the snapshot's external key where the local key goes.
PrepareGetRequestByExternalKey(prepared) ==
  [op |-> "get", coll |-> "parent",
   a1 |-> [localKey |-> Get(prepared[ParentFieldName], ParentKeyField)], a2 |-> EmptyRec]

\* parentCollection.get(parentKey), the snapshot's local key
PrepareGetRequest(prepared) ==
  [op |-> "get", coll |-> "parent",
   a1 |-> [localKey |-> Get(prepared[ParentFieldName], ParentLocalKey)], a2 |-> EmptyRec]

\* Whether the snapshot already carries the external id.
HasExternalId(prepared) == Truthy(Get(prepared[ParentFieldName], ParentKeyField))

\* A prepare that looks the parent up whenever there is a snapshot.
PrepareRequestsAlwaysLookup(prepared) ==
  IF ~HasSnapshot(prepared) THEN <<>> ELSE <<PrepareGetRequest(prepared)>>

\* The requests the enhanced prepare issues once the wrapped transform is done.
PrepareRequests(prepared) ==
  IF ~HasSnapshot(prepared) THEN <<>>
  ELSE IF HasExternalId(prepared) THEN <<>>
  ELSE <<PrepareGetRequest(prepared)>>

\* A direct result that writes the lookup field also when there is no snapshot.
PrepareDirectAlwaysWrites(prepared) ==
  Put(prepared, LookupField,
      IF ParentFieldName \in DOMAIN prepared
        THEN Get(prepared[ParentFieldName], ParentKeyField)
        ELSE Unset)

\* What it resolves with when it needs no lookup.
PrepareDirect(prepared) ==
  IF ~HasSnapshot(prepared) THEN prepared
  ELSE Put(prepared, LookupField, Get(prepared[ParentFieldName], ParentKeyField))

\* A continuation without the check that the parent has an external id.
PrepareAfterGetNoIdCheck(prepared, parent) ==
  IF parent = EmptyRec
    THEN [status |-> "rejected", err |-> "notFound", out |-> EmptyRec]
    ELSE [status |-> "resolved", err |-> "none",
          out |-> Put(prepared, LookupField, Get(parent, ParentKeyField))]

\* The continuation of the lookup by local key.
PrepareAfterGet(prepared, parent) ==
  IF parent = EmptyRec
    THEN [status |-> "rejected", err |-> "notFound", out |-> EmptyRec]
  ELSE IF ~Truthy(Get(parent, ParentKeyField))
    THEN [status |-> "rejected", err |-> "noExternalId", out |-> EmptyRec]
  ELSE [status |-> "resolved", err |-> "none",
        out |-> Put(prepared, LookupField, Get(parent, ParentKeyField))]

\* Whether a record is the one the enhanced cleanse has just resolved with.
IsCleansed(record) == hook = "cleanse" /\ status = "resolved" /\ record = out

\* Records an enhanced prepare may be given: any of PrepareArgs, or the
\* record the enhanced cleanse has just resolved with.
PrepareInputs ==
  PrepareArgs(cfg) \cup (IF hook = "cleanse" /\ status = "resolved" THEN {out} ELSE {})

CallPrepare(record, action, wrapped) ==
  /\ Begin("prepare", record)
  /\ LET prepared == IF wrapped THEN WrappedPrepare(record, action) ELSE record
     IN  /\ log' = PrepareRequests(prepared)
         /\ work' = prepared
         /\ IF log' = <<>>
              THEN Settle("resolved", PrepareDirect(prepared))
              ELSE /\ pc' = "prepareGet"
                   /\ status' = "pending"
                   /\ out' = EmptyRec
  /\ chained' = IsCleansed(record)
  /\ detached' = Older(detached)
  /\ base' = NoBase
  /\ UNCHANGED <<caller, cfg, parents, children>>

PrepareGetDone ==
  /\ pc = "prepareGet"
  /\ \E parent \in GetResults(GetByLocalKey(parents, log[1].a1.localKey)) :
       LET r == PrepareAfterGet(work, parent)
       IN  /\ Settle(r.status, r.out)
           /\ err' = r.err
  /\ UNCHANGED <<caller, cfg, parents, children, hook, arg, work, log, detached, opFailed,
                 chained, base>>

(***************************************************************************)
(* The specification.                                                      *)
(***************************************************************************)
Next ==
  \/ \E parent \in ParentArgs : CallOnParentInserted(parent)
  \/ \E parent \in ParentArgs : CallOnParentUpdated(parent)
  \/ FindDone
  \/ ParentUpdateDone
  \/ \E d \in detached : DetachedApplied(d)
  \/ \E d \in detached : DetachedFails(d)
  \/ \E h \in {"onChildInserted", "onChildUpdated", "onChildRemoved"} :
       \E child \in ChildArgs : CallOnChild(h, child)
  \/ AddDone
  \/ RemoveDone
  \/ \E record \in CleanseArgs(cfg), wrapped \in BOOLEAN : CallCleanse(record, wrapped)
  \/ CleanseGetDone
  \/ \E record \in PrepareInputs, action \in Actions, wrapped \in BOOLEAN :
       CallPrepare(record, action, wrapped)
  \/ PrepareGetDone
  \/ AwaitedFails

Spec == Init /\ [][Next]_vars

(***************************************************************************)
(* Construction on its own: the caller holds an options object and calls   *)
(* joint with it, possibly several times.                                  *)
(***************************************************************************)
InitBuild ==
  /\ config \in Configs
  /\ built = 0
  /\ joints = <<>>
  /\ thrown = "none"
  /\ calls = <<>>
  /\ cfg = EmptyRec
  /\ parents \in ParentInits
  /\ children = {}
  /\ hook = "none"
  /\ arg = EmptyRec
  /\ pc = "idle"
  /\ work = EmptyRec
  /\ status = "none"
  /\ out = EmptyRec
  /\ err = "none"
  /\ log = <<>>
  /\ detached = {}
  /\ opFailed = FALSE
  /\ chained = FALSE
  /\ base = NoBase

\* The caller calls joint(config).
CallJoint ==
  /\ built < MaxBuilds
  /\ built' = built + 1
  /\ thrown' = jointCall(config).thrown
  /\ calls' = jointCall(config).calls
  /\ config' = jointCall(config).options
  /\ IF jointCall(config).returned
       THEN cfg' = joint(config) /\ joints' = Append(joints, joint(config))
       ELSE UNCHANGED <<cfg, joints>>
  /\ UNCHANGED <<parents, children, hook, arg, pc, work, status, out, err, log,
                 detached, opFailed, chained, base>>

NextBuild == CallJoint

SpecBuild == InitBuild /\ [][NextBuild]_vars

(***************************************************************************)
(* Properties.                                                             *)
(***************************************************************************)
Done(h) == hook = h /\ pc = "idle"

\* The fields a snapshot is specified to hold: the declared parent fields and
\* the parent's local key.
SnapshotFields == Range(cfg.declared) \cup {ParentLocalKey}

Projection(rec, fields) == [f \in fields \cap DOMAIN rec |-> rec[f]]

\* C1: when the snapshot carries no external key and the lookup by its local
\* key finds no parent, or a parent whose external key is unset, the enhanced
\* prepare is rejected and hands back no record.
PrepareHardFailure ==
  (Done("prepare") /\ ParentFieldName \in DOMAIN work
     /\ ~Truthy(Get(work[ParentFieldName], ParentKeyField))) =>
    LET found == {p \in parents :
                    /\ Truthy(Get(work[ParentFieldName], ParentLocalKey))
                    /\ Get(p, ParentLocalKey) = Get(work[ParentFieldName], ParentLocalKey)}
    IN  (\A p \in found : ~Truthy(Get(p, ParentKeyField))) =>
          status = "rejected" /\ out = EmptyRec

\* A prepare rejected because the parent it found has no external id yet.
PrepareHardFailureWitness ==
  /\ Done("prepare")
  /\ status = "rejected"
  /\ err = "noExternalId"
  /\ \E p \in parents : Get(p, ParentLocalKey) = work[ParentFieldName][ParentLocalKey]

\* C2: when the cleansed record's foreign key is the external key of a parent
\* in the collection, the output carries at parentFieldName exactly that
\* parent's projection onto the declared parent fields and its local key.
CleanseAttachesProjection ==
  (Done("cleanse") /\ status = "resolved" /\ Truthy(Get(work, LookupField))
     /\ \E p \in parents : Get(p, ParentKeyField) = Get(work, LookupField)) =>
    /\ ParentFieldName \in DOMAIN out
    /\ \E p \in parents :
         /\ Get(p, ParentKeyField) = Get(work, LookupField)
         /\ out[ParentFieldName] = Projection(p, SnapshotFields)
    /\ \A f \in (DOMAIN out) \ {ParentFieldName} : f \in DOMAIN work /\ out[f] = work[f]

\* A cleanse that replaced a snapshot with the projection of the parent found,
\* which has a declared field besides its local key.
CleanseAttachesProjectionWitness ==
  /\ Done("cleanse")
  /\ status = "resolved"
  /\ ParentFieldName \in DOMAIN arg
  /\ ParentFieldName \in DOMAIN out
  /\ out[ParentFieldName] # arg[ParentFieldName]
  /\ DOMAIN out[ParentFieldName] = {"name", ParentLocalKey}

\* C3: without a foreign key the enhanced cleanse resolves with the wrapped
\* transform's output and issues no lookup; with a foreign key no parent has,
\* it resolves with that output as well.
CleanseSoftPath ==
  Done("cleanse") =>
    /\ work \in {arg, WrappedCleanse(arg)}
    /\ ~Truthy(Get(work, LookupField)) =>
         status = "resolved" /\ out = work /\ log = <<>>
    /\ (/\ Truthy(Get(work, LookupField))
        /\ \A p \in parents : Get(p, ParentKeyField) # Get(work, LookupField)
        /\ err # "collection") =>
         status = "resolved" /\ out = work

\* A cleanse of a wrapped transform's output whose foreign key no parent has.
CleanseSoftPathWitness ==
  /\ Done("cleanse")
  /\ status = "resolved"
  /\ log # <<>>
  /\ work # arg
  /\ out = work
  /\ \A p \in parents : Get(p, ParentKeyField) # Get(work, LookupField)

\* The entries of a related list that are, or are not, those of a child.
EntriesOf(list, child) ==
  LET Mine(e) == Get(e, ChildLocalKey) = Get(child, ChildLocalKey)
  IN  SelectSeq(list, Mine)

EntriesNotOf(list, child) ==
  LET Other(e) == Get(e, ChildLocalKey) # Get(child, ChildLocalKey)
  IN  SelectSeq(list, Other)

\* C4: every parent's related list holds at most one entry per child local
\* key, whatever child hooks have run and however often.
RelatedListUnique ==
  \A p \in parents :
    LET list == ListOf(p, RelatedListName)
    IN  \A i, j \in 1..Len(list) :
          Get(list[i], ChildLocalKey) = Get(list[j], ChildLocalKey) => i = j

\* The same child upserted twice in a row into a list that holds its entry
\* and another child's.
RelatedListUniqueWitness ==
  /\ hook \in {"onChildInserted", "onChildUpdated"}
  /\ pc = "idle"
  /\ status = "resolved"
  /\ base.set
  /\ \E p \in parents :
       /\ Get(p, ParentKeyField) = Get(arg, LookupField)
       /\ Len(ListOf(p, RelatedListName)) = 2
       /\ Len(EntriesOf(ListOf(p, RelatedListName), arg)) = 1

\* The record of a collection with a given local key.
ById(coll, id) == CHOOSE r \in coll : Get(r, ParentLocalKey) = id

\* The summary of a child the related list is specified to hold.
Summary(child) ==
  Projection(child, Range(UserRelatedListFields) \cup {ChildLocalKey})

\* What an upsert of the child may change: in the parents the child's foreign
\* key names, the child's entry, which is afterwards its summary, once.
UpsertEffect(before, after, child) ==
  /\ {Get(r, ParentLocalKey) : r \in after} = {Get(r, ParentLocalKey) : r \in before}
  /\ \A r \in before :
       LET r2 == ById(after, Get(r, ParentLocalKey))
       IN  IF Get(r, ParentKeyField) = Get(child, LookupField)
             THEN /\ EntriesOf(ListOf(r2, RelatedListName), child) = <<Summary(child)>>
                  /\ EntriesNotOf(ListOf(r2, RelatedListName), child)
                       = EntriesNotOf(ListOf(r, RelatedListName), child)
                  /\ Projection(r2, (DOMAIN r2) \ {RelatedListName})
                       = Projection(r, (DOMAIN r) \ {RelatedListName})
             ELSE r2 = r

\* What a removal of the child may change: the child's entry is gone from the
\* parents its foreign key names, and nothing else is touched.
RemovalEffect(before, after, child) ==
  /\ {Get(r, ParentLocalKey) : r \in after} = {Get(r, ParentLocalKey) : r \in before}
  /\ \A r \in before :
       LET r2 == ById(after, Get(r, ParentLocalKey))
       IN  IF Get(r, ParentKeyField) = Get(child, LookupField)
             THEN /\ EntriesOf(ListOf(r2, RelatedListName), child) = <<>>
                  /\ EntriesNotOf(ListOf(r2, RelatedListName), child)
                       = EntriesNotOf(ListOf(r, RelatedListName), child)
                  /\ Projection(r2, (DOMAIN r2) \ {RelatedListName})
                       = Projection(r, (DOMAIN r) \ {RelatedListName})
             ELSE r2 = r

\* C5: the step that completes onChildInserted leaves the child's summary
\* (relatedListFields and the local key) as its one entry in the list of the
\* parent its foreign key names, and the step that completes onChildRemoved
\* removes that entry; both leave every other entry of every list unchanged.
InsertThenRemove ==
  [][/\ (pc = "add" /\ status' = "resolved") => UpsertEffect(parents, parents', arg)
     /\ (pc = "remove" /\ status' = "resolved") => RemovalEffect(parents, parents', arg)]_vars

\* A child removed right after it was inserted, from a list that keeps the
\* entry of another child.
InsertThenRemoveWitness ==
  /\ Done("onChildRemoved")
  /\ status = "resolved"
  /\ base.set
  /\ \E p \in base.parents :
       /\ Get(p, ParentKeyField) = Get(arg, LookupField)
       /\ Len(ListOf(p, RelatedListName)) = 2
       /\ EntriesOf(ListOf(p, RelatedListName), arg) = <<Summary(arg)>>
       /\ Len(ListOf(ById(parents, Get(p, ParentLocalKey)), RelatedListName)) = 1

\* C6: every onParentInserted(parent), under every configuration, issues the
\* child-collection update that matches on the parent's snapshot and sets the
\* lookup field to the parent's external key.
PropagationAlwaysIssued ==
  hook = "onParentInserted" =>
    \E i \in 1..Len(log) :
      log[i] = [op |-> "update", coll |-> "child",
                a1 |-> (ParentFieldName :> Projection(arg, SnapshotFields)),
                a2 |-> (LookupField :> Get(arg, ParentKeyField))]

\* C7: no hook invocation resolves, or returns without a result, while a
\* collection operation it issued has failed.
FailurePropagates ==
  (pc = "idle" /\ status \in {"resolved", "returned"}) => ~opFailed

\* C8: onParentInserted run to completion twice in a row for the same parent
\* leaves both collections as the first run left them.
ParentInsertIdempotent ==
  (Done("onParentInserted") /\ base.set /\ status \in {"resolved", "returned"}
     /\ ~opFailed /\ detached = {}) =>
    parents = base.parents /\ children = base.children

\* C9: when the prepared record's snapshot carries the parent's external key,
\* the enhanced prepare resolves with the record, that key copied into the
\* lookup field, and has issued no collection request.
PrepareFastPath ==
  (hook = "prepare" /\ ParentFieldName \in DOMAIN work
     /\ Truthy(Get(work[ParentFieldName], ParentKeyField))) =>
    /\ pc = "idle"
    /\ status = "resolved"
    /\ log = <<>>
    /\ out = Put(work, LookupField, Get(work[ParentFieldName], ParentKeyField))

\* A prepare whose snapshot's external key replaced another foreign key.
PrepareFastPathWitness ==
  /\ Done("prepare")
  /\ status = "resolved"
  /\ ParentFieldName \in DOMAIN work
  /\ Truthy(Get(work[ParentFieldName], ParentKeyField))
  /\ Truthy(Get(work, LookupField))
  /\ Get(out, LookupField) # Get(work, LookupField)

\* C10: a record cleansed with the external key K of a parent in the
\* collection, under parent fields without the external key field, and then
\* prepared, is looked up by the local key in its snapshot and resolves with
\* K at the lookup field (unless the lookup itself fails).
CleanseThenPrepare ==
  (Done("prepare") /\ chained /\ ParentKeyField \notin Range(cfg.declared)
     /\ Truthy(Get(arg, LookupField))
     /\ (\E p \in parents : Get(p, ParentKeyField) = Get(arg, LookupField))
     /\ err # "collection") =>
    /\ ParentFieldName \in DOMAIN arg
    /\ log = <<[op |-> "get", coll |-> "parent",
                a1 |-> [localKey |-> Get(arg[ParentFieldName], ParentLocalKey)],
                a2 |-> EmptyRec]>>
    /\ Truthy(Get(arg[ParentFieldName], ParentLocalKey))
    /\ status = "resolved"
    /\ Get(out, LookupField) = Get(arg, LookupField)

\* The prepare of a cleansed record that went through the lookup by local key.
CleanseThenPrepareWitness ==
  /\ Done("prepare")
  /\ chained
  /\ status = "resolved"
  /\ Len(log) = 1
  /\ Truthy(Get(out, LookupField))
  /\ Get(out, LookupField) = Get(arg, LookupField)
  /\ DOMAIN arg[ParentFieldName] = {"name", ParentLocalKey}

ChildHooks == {"onChildInserted", "onChildUpdated", "onChildRemoved"}

\* C12: a child hook given a child without a foreign key issues no request,
\* returns at once, and the step that runs it changes neither collection.
ChildHookNoOpWithoutKey ==
  [][(hook' \in ChildHooks /\ ~Truthy(Get(arg', LookupField))) =>
       /\ pc' = "idle"
       /\ status' = "returned"
       /\ log' = <<>>
       /\ \A d \in detached' : ~d.cur
       /\ Cardinality(detached') >= Cardinality(detached) =>
            parents' = parents /\ children' = children]_vars

\* A removal hook run for a child without a foreign key while a related list
\* holds that child's entry.
ChildHookNoOpWithoutKeyWitness ==
  /\ Done("onChildRemoved")
  /\ ~Truthy(Get(arg, LookupField))
  /\ status = "returned"
  /\ \E p \in parents : Len(EntriesOf(ListOf(p, RelatedListName), arg)) = 1

\* C14: when the prepared record has nothing at parentFieldName, the enhanced
\* prepare resolves with it unchanged, its lookup field included, and issues
\* no collection request.
PreparePassThrough ==
  (hook = "prepare" /\ ParentFieldName \notin DOMAIN work) =>
    /\ pc = "idle"
    /\ status = "resolved"
    /\ out = work
    /\ log = <<>>
    /\ work \in {arg, WrappedPrepare(arg, "update")}

\* A prepare without a snapshot that kept the foreign key the record had.
PreparePassThroughWitness ==
  /\ Done("prepare")
  /\ ParentFieldName \notin DOMAIN work
  /\ Truthy(Get(work, LookupField))
  /\ work # arg
  /\ Get(out, LookupField) = Get(arg, LookupField)

\* The local keys of the parents whose related list holds an entry of a child.
ListedUnder(coll, childKey) ==
  {Get(p, ParentLocalKey) : p \in
     {q \in coll : \E i \in 1..Len(ListOf(q, RelatedListName)) :
                     Get(ListOf(q, RelatedListName)[i], ChildLocalKey) = childKey}}

\* C15: a child's entry leaves a parent's related list only in the step that
\* completes onChildRemoved for that child with its foreign key naming that
\* parent; an upsert of the child under another parent, or a hook call for it
\* without a foreign key, leaves the entry where it was.
ReparentingNotCleanedUp ==
  [][parents' # parents =>
       \A k \in {Get(c, ChildLocalKey) : c \in ChildArgs} :
         \A a \in ListedUnder(parents, k) \ ListedUnder(parents', k) :
           /\ pc = "remove"
           /\ Get(arg, ChildLocalKey) = k
           /\ Get(ById(parents, a), ParentKeyField) = Get(arg, LookupField)]_vars

\* onChildUpdated has moved a child to a second parent and the first parent
\* still lists it.
ReparentingNotCleanedUpWitness ==
  /\ Done("onChildUpdated")
  /\ status = "resolved"
  /\ Cardinality(ListedUnder(parents, Get(arg, ChildLocalKey))) = 2
  /\ \E p \in parents :
       /\ Get(p, ParentLocalKey) \in ListedUnder(parents, Get(arg, ChildLocalKey))
       /\ Get(p, ParentKeyField) # Get(arg, LookupField)

\* C16: when the parent update of the redefined onParentInserted completes,
\* the parent with the inserted parent's external key holds, as its related
\* list, the summaries of the children the find returned.
ResyncOverwritesList ==
  [][(pc = "parentUpdate" /\ pc' = "idle" /\ status' = "resolved"
        /\ Truthy(Get(arg, ParentKeyField))) =>
       \A p \in parents' :
         Get(p, ParentKeyField) = Get(arg, ParentKeyField) =>
           ListOf(p, RelatedListName) = log[Len(log)].a1[RelatedListName]]_vars

\* C17: an invocation never has two collection operations outstanding: while
\* it waits for its find or its parent update, none of the updates it issued
\* itself is still under way.
StrictSequencing ==
  pc # "idle" => \A d \in detached : ~d.cur

\* C19: no step takes a non-empty foreign key away from a child.
ForeignKeyNeverErased ==
  [][\A c \in children :
       Truthy(Get(c, LookupField)) =>
         \E c2 \in children' :
           /\ Get(c2, ChildLocalKey) = Get(c, ChildLocalKey)
           /\ Truthy(Get(c2, LookupField))]_vars

\* C20: a cleansed record that carries a foreign key and a snapshot carries
\* the projection of the parent that key identifies.
CleansedSnapshotMatchesKey ==
  (Done("cleanse") /\ status = "resolved"
     /\ Truthy(Get(out, LookupField)) /\ ParentFieldName \in DOMAIN out) =>
    \E p \in parents :
      /\ Get(p, ParentKeyField) = Get(out, LookupField)
      /\ out[ParentFieldName] = Projection(p, SnapshotFields)

\* C11: the first joint built from an options object exposes onParentUpdated
\* exactly when the options declare a parent field other than the local key.
OnParentUpdatedPolicy ==
  Len(joints) > 0 =>
    joints[1].onParentUpdated = ~(Range(joints[1].declared) \subseteq {ParentLocalKey})

\* C13: a call of joint with options of which childEntity, parentEntity or
\* lookupField is not a string throws, builds no joint and calls no method
\* of either collection.
ConstructionValidation ==
  (built > 0 /\ \E i \in 1..Len(StringOptions) : StringOptions[i] \notin DOMAIN config) =>
    /\ thrown \in {"Invalid option " \o StringOptions[i] : i \in 1..Len(StringOptions)}
    /\ joints = <<>>
    /\ cfg = EmptyRec
    /\ calls = <<>>

\* joint has been called with options that lack only the lookup field while
\* they ask for a related list.
ConstructionValidationWitness ==
  /\ built > 0
  /\ DOMAIN config = {"childEntity", "parentEntity", "parentFields",
                      "relatedListName", "relatedListFields"}
  /\ Truthy(config.relatedListName)
  /\ thrown = "Invalid option lookupField"

\* The hooks and field sets by which two joints are told apart.
Exposes(j) ==
  [snapshotFields |-> Range(j.parentFields),
   relatedListFields |-> Range(j.relatedListFields),
   onParentUpdated |-> j.onParentUpdated,
   childHooks |-> j.childHooks]

\* C18: a call of joint leaves the caller's options as they were, and all the
\* joints built from them expose the same hooks and field sets.
ConfigNotMutated ==
  [][/\ config' = config
     /\ \A i \in 1..Len(joints') : Exposes(joints'[i]) = Exposes(joints'[1])]_vars

====
